---- MODULE Spec2Model ----
(***************************************************************************)
(* Client-side module lifecycle of xgovuk-flask-admin: the two GOVUK       *)
(* modules (SelectWithSearch, AutoSubmit), their registration on           *)
(* window.GOVUK.Modules, and the page bootstrap of main.js.                *)
(*                                                                         *)
(* The browser is single threaded: a script evaluation or an event handler *)
(* runs to completion before the next event is dispatched.  The steps of   *)
(* a running task are separate actions ordered by a program counter, and   *)
(* no event is dispatched while a task is running (Idle).                  *)
(*                                                                         *)
(* Spec is the life of one page: the evaluation of main.js, the browser's  *)
(* DOMContentLoaded, the bootstrap over the marked elements, change events *)
(* and what other scripts of the page may do to the shared globals.        *)
(* SpecInit is the bootstrap of a page holding a single select-with-search *)
(* element, drawn from every element shape up to MaxKids children.         *)
(***************************************************************************)
EXTENDS Integers, Sequences, FiniteSets, TLC

\* ------------------------------------------------------------------ bounds
NumElems == 2          \* marked elements in the document, in document order
MaxKids == 2           \* children of a select (SpecInit's input)
MaxChanges == 2        \* change events dispatched during the page lifetime
MaxRedispatches == 1   \* DOMContentLoaded events dispatched again by other scripts

\* ------------------------------------------------------------- DOM values
Null == "<null>"        \* getAttribute() of an absent attribute; no ancestor
Undefined == "<undefined>"

Elems == 1..NumElems
Forms == {"f", "g"}

OptionValues == {Null, "", "a"}      \* the value attribute of an option
OptionTexts == {"", "A"}             \* its textContent before enhancement

Option(v, t) == [kind |-> "option", value |-> v, text |-> t, kids |-> <<>>]
OptGroup(ks) == [kind |-> "optgroup", value |-> Null, text |-> "", kids |-> ks]

Options == {Option(v, t) : v \in OptionValues, t \in OptionTexts}
OptGroups == {OptGroup(<<>>)} \cup {OptGroup(<<o>>) : o \in Options}
Nodes == Options \cup OptGroups

SeqsUpTo(S, n) == UNION {[1..k -> S] : k \in 0..n}

\* HTMLOptionElement.value: the value attribute, or the text when it is absent
OptionValueProperty(o) == IF o.value = Null THEN o.text ELSE o.value

\* ---------------------------------------------------------------- elements
\* A marked element: its tag, its data-module value, its nearest ancestor
\* form (closest("form")), the attributes SelectWithSearch reads, its child
\* nodes, the widget handle stored on it (0: none) and its change listeners
\* (each listener is the closure of auto-submit.js:45-47, identified by the
\* form it captured).
El(tag, marker, form, multiple, describedby, removeDup, kids) ==
    [tag |-> tag, marker |-> marker, form |-> form, multiple |-> multiple,
     id |-> "sel", describedby |-> describedby, removeDup |-> removeDup,
     kids |-> kids, choices |-> 0, listeners |-> <<>>]

\* element.matches("select")
MatchesSelect(el) == el.tag = "select"

\* element.closest("form"): the nearest ancestor form, or Null
ClosestForm(el) == el.form

\* ------------------------------------------- select-with-search.js: init
\* The candidate of 'option[value=""]:first-child' under child i of the
\* select: an option matches when its value ATTRIBUTE is the empty string and
\* it is the first element child of its parent (the select or an optgroup).
CandidateAt(kids, i) ==
    IF kids[i].kind = "option"
    THEN IF i = 1 /\ kids[i].value = "" THEN <<i>> ELSE <<>>
    ELSE IF Len(kids[i].kids) > 0 /\ kids[i].kids[1].value = ""
         THEN <<i, 1>> ELSE <<>>

\* module.querySelector('option[value=""]:first-child'): the first match in
\* document order, as a path into kids (<<>>: null).
PlaceholderOption(kids) ==
    LET hits == {i \in 1..Len(kids) : CandidateAt(kids, i) # <<>>}
    IN IF hits = {} THEN <<>>
       ELSE CandidateAt(kids, CHOOSE i \in hits : \A j \in hits : i <= j)

NodeAt(kids, path) ==
    IF Len(path) = 1 THEN kids[path[1]] ELSE kids[path[1]].kids[path[2]]

SetTextAt(kids, path, t) ==
    IF Len(path) = 1
    THEN [kids EXCEPT ![path[1]].text = t]
    ELSE [kids EXCEPT ![path[1]].kids[path[2]].text = t]

\* The placeholder text chosen without looking at the select's multiplicity
PlaceholderTextSingle(el) == "Select one"

PlaceholderText(el) ==
    IF el.multiple THEN "Select all that apply" ELSE "Select one"

\* lines 31-39: the placeholder rewrite
RewritePlaceholder(el) ==
    LET placeholderOption == PlaceholderOption(el.kids)
    IN IF placeholderOption # <<>> /\ NodeAt(el.kids, placeholderOption).text = ""
       THEN [el EXCEPT !.kids = SetTextAt(el.kids, placeholderOption, PlaceholderText(el))]
       ELSE el

\* ariaDescribedBy without the || "" of line 42: an absent attribute stays
\* null and is concatenated as such
ariaDescribedByNoDefault(el) == el.describedby

\* lines 41-43
ariaDescribedBy(el) == IF el.describedby = Null THEN "" ELSE el.describedby
labelId(el) == el.id \o "-label " \o ariaDescribedBy(el)

\* removeDuplicates taking any present data-remove-duplicates attribute as a
\* request to remove duplicates
removeDuplicatesPresent(el) == el.removeDup # Null

\* lines 46-47
removeDuplicates(el) == el.removeDup = "true"

\* lines 49-76: the options handed to new Choices(...)
ChoicesConfig(el) ==
    [allowHTML |-> FALSE, searchPlaceholderValue |-> "Search in list",
     shouldSort |-> FALSE, itemSelectText |-> "", searchResultLimit |-> 100,
     removeItemButton |-> el.multiple,
     duplicateItemsAllowed |-> ~removeDuplicates(el),
     labelId |-> labelId(el),
     fuseOptions |-> [ignoreLocation |-> TRUE, threshold |-> 0]]

\* The widget's type (this.dropdown.type), taken from the passed element
DropdownType(el) == IF el.multiple THEN "select-multiple" ELSE "select-one"

\* The sequence s without the element x
Without(s, x) == SelectSeq(s, LAMBDA y : y # x)

\* line 49: the structure new Choices has built when it calls callbackOnInit:
\* the children of the inner container (this.containerInner.element) and of
\* the dropdown.  The widget puts the list of selected items in the inner
\* container; the search input follows it there for a multiple select and
\* heads the dropdown for a single select.
ChoicesStructure(type) ==
    IF type = "select-multiple"
    THEN [inner |-> <<"itemList", "input">>, dropdown |-> <<"choiceList">>]
    ELSE [inner |-> <<"itemList">>, dropdown |-> <<"input", "choiceList">>]

\* line 65: inner.prepend(input) takes the input from where it is and makes
\* it the first child of the inner container
Prepend(layout, node) ==
    [inner |-> <<node>> \o Without(layout.inner, node),
     dropdown |-> Without(layout.dropdown, node)]

\* callbackOnInit moving the input whatever the widget's type
callbackOnInitAlwaysPrepend(el, config) ==
    LET built == ChoicesStructure(DropdownType(el))
    IN [config |-> config, type |-> DropdownType(el), built |-> built,
        layout |-> Prepend(built, "input"),
        listboxLabelledBy |-> labelId(el)]

\* lines 58-70: callbackOnInit, run by the widget at the end of a successful
\* construction: built is the widget's structure before it, layout the
\* structure after it, listboxLabelledBy the aria-labelledby set on the
\* listbox (this.itemList.element).
callbackOnInit(el, config) ==
    LET built == ChoicesStructure(DropdownType(el))
    IN [config |-> config, type |-> DropdownType(el), built |-> built,
        layout |-> IF DropdownType(el) = "select-multiple"
                   THEN Prepend(built, "input")
                   ELSE built,
        listboxLabelledBy |-> labelId(el)]

\* SelectWithSearch.init with the return of line 28 missing: the error is
\* reported and the enhancement goes on
SelectWithSearchInitNoReturn(el, handle, widgetOk) ==
    LET el1 == RewritePlaceholder(el)
        errors == IF MatchesSelect(el) THEN 0 ELSE 1
    IN IF ~widgetOk
       THEN [el |-> el1, errors |-> errors, thrown |-> TRUE, choices |-> 0,
             widgets |-> <<>>]
       ELSE [el |-> [el1 EXCEPT !.choices = handle], errors |-> errors,
             thrown |-> FALSE, choices |-> handle,
             widgets |-> <<callbackOnInit(el1, ChoicesConfig(el1))>>]

\* SelectWithSearch.init with line 78 missing: the handle stays on the
\* instance and is not put on the element
SelectWithSearchInitNoExpose(el, handle, widgetOk) ==
    IF ~MatchesSelect(el)
    THEN [el |-> el, errors |-> 1, thrown |-> FALSE, choices |-> 0, widgets |-> <<>>]
    ELSE LET el1 == RewritePlaceholder(el)
         IN IF ~widgetOk
            THEN [el |-> el1, errors |-> 0, thrown |-> TRUE, choices |-> 0,
                  widgets |-> <<>>]
            ELSE [el |-> el1, errors |-> 0, thrown |-> FALSE, choices |-> handle,
                  widgets |-> <<callbackOnInit(el1, ChoicesConfig(el1))>>]

\* lines 25-79: SelectWithSearch.prototype.init on element el.  handle is the
\* object new Choices returns, widgetOk whether the external constructor
\* returns (TRUE) or throws (FALSE).  The result: the element afterwards, the
\* console.error calls made, whether an exception left init, the instance's
\* this.choices (0: not set) and the widgets constructed.
SelectWithSearchInit(el, handle, widgetOk) ==
    IF ~MatchesSelect(el)
    THEN [el |-> el, errors |-> 1, thrown |-> FALSE, choices |-> 0, widgets |-> <<>>]
    ELSE LET el1 == RewritePlaceholder(el)
             this == [choices |-> IF widgetOk THEN handle ELSE 0]
         IN IF ~widgetOk
            THEN [el |-> el1, errors |-> 0, thrown |-> TRUE, choices |-> this.choices,
                  widgets |-> <<>>]
            ELSE [el |-> [el1 EXCEPT !.choices = this.choices], errors |-> 0,
                  thrown |-> FALSE, choices |-> this.choices,
                  widgets |-> <<callbackOnInit(el1, ChoicesConfig(el1))>>]

\* ------------------------------------------------ auto-submit.js: init
\* AutoSubmit.init listening to two events of the select (change and input),
\* both of which a change of selection fires
AutoSubmitInitTwoEvents(el) ==
    IF ~MatchesSelect(el)
    THEN [el |-> el, errors |-> 1, thrown |-> FALSE]
    ELSE LET form == ClosestForm(el)
         IN IF form = Null
            THEN [el |-> el, errors |-> 1, thrown |-> FALSE]
            ELSE [el |-> [el EXCEPT !.listeners = Append(Append(@, form), form)],
                  errors |-> 0, thrown |-> FALSE]

\* AutoSubmit.init with the return of line 34 missing: a non-select goes on
\* to the form check
AutoSubmitInitNoReturn(el) ==
    LET form == ClosestForm(el)
        tagErrors == IF MatchesSelect(el) THEN 0 ELSE 1
    IN IF form = Null
       THEN [el |-> el, errors |-> tagErrors + 1, thrown |-> FALSE]
       ELSE [el |-> [el EXCEPT !.listeners = Append(@, form)],
             errors |-> tagErrors, thrown |-> FALSE]

\* lines 29-48: AutoSubmit.prototype.init on element el
AutoSubmitInit(el) ==
    IF ~MatchesSelect(el)
    THEN [el |-> el, errors |-> 1, thrown |-> FALSE]
    ELSE LET form == ClosestForm(el)
         IN IF form = Null
            THEN [el |-> el, errors |-> 1, thrown |-> FALSE]
            ELSE [el |-> [el EXCEPT !.listeners = Append(@, form)],
                  errors |-> 0, thrown |-> FALSE]

\* The listener looking the form up when the event arrives
\* (this.closest("form").submit()) instead of using the captured one
ChangeSubmitsLive(el) == [i \in 1..Len(el.listeners) |-> ClosestForm(el)]

\* lines 45-47: dispatching one change event on el runs its listeners in
\* order; each calls form.submit() on the form it captured.  The result is
\* the sequence of forms submitted.
ChangeSubmits(el) == el.listeners

\* ------------------------------------------------------------ the registry
\* window.GOVUK and window.GOVUK.Modules: whether each object exists, and
\* the factory held under each key of Modules.
RegistryKeys == {"SelectWithSearch", "AutoSubmit", "Other"}
Factories == {"SelectWithSearch", "AutoSubmit", "Foreign"}

NoModules == [k \in RegistryKeys |-> Undefined]

\* The namespace lines written as plain assignments
\* (window.GOVUK.Modules = {}): what was registered before is dropped
EnsureNamespaceReset(g) ==
    [defined |-> TRUE, modulesDefined |-> TRUE, Modules |-> NoModules]

\* window.GOVUK = window.GOVUK || {};
\* window.GOVUK.Modules = window.GOVUK.Modules || {};
EnsureNamespace(g) ==
    [defined |-> TRUE, modulesDefined |-> TRUE,
     Modules |-> IF g.defined /\ g.modulesDefined THEN g.Modules ELSE NoModules]

\* Modules.<key> = <factory>
Register(g, key, factory) == [g EXCEPT !.Modules[key] = factory]

\* window.GOVUK.Modules.<key>, as the bootstrap reads it
Lookup(g, key) == g.Modules[key]

\* What other scripts of the page may have left on window before main.js runs
InitialNamespaces ==
    {[defined |-> FALSE, modulesDefined |-> FALSE, Modules |-> NoModules],
     [defined |-> TRUE, modulesDefined |-> FALSE, Modules |-> NoModules],
     [defined |-> TRUE, modulesDefined |-> TRUE,
      Modules |-> [NoModules EXCEPT !["Other"] = "Foreign",
                                    !["SelectWithSearch"] = "Foreign"]]}

\* ---------------------------------------------------------------- the page
\* The marked elements a server-rendered page may hold
PageElements ==
    {El("select", "select-with-search", Null, FALSE, Null, Null,
        <<Option("", ""), Option("a", "A")>>),
     El("input", "select-with-search", "f", FALSE, Null, Null, <<>>),
     El("select", "auto-submit", "f", FALSE, Null, Null, <<Option("a", "A")>>),
     El("select", "auto-submit", Null, FALSE, Null, Null, <<Option("a", "A")>>),
     El("input", "auto-submit", "g", FALSE, Null, Null, <<>>),
     El("input", "auto-submit", Null, FALSE, Null, Null, <<>>),
     El("select", "auto-submit select-with-search", "g", FALSE, Null, Null,
        <<Option("", "")>>)}

VARIABLES
    page,               \* the marked elements as the server rendered them
    dom,                \* the marked elements now, in document order
    GOVUK,              \* window.GOVUK (the module registry)
    pc,                 \* position of the evaluation of main.js
    handlers,           \* DOMContentLoaded listeners attached by main.js
    domReady,           \* the browser has fired DOMContentLoaded
    boot,               \* position of a running bootstrap handler
    bootRuns,           \* invocations of the bootstrap handler
    redispatches,       \* DOMContentLoaded events dispatched by other scripts
    console,            \* console.error calls
    uncaught,           \* exceptions that left the bootstrap handler
    widgets,            \* widgets constructed by new Choices, in order
    submits,            \* [Forms -> Nat]: form.submit() calls
    initLog,            \* the init calls made, in order: module, element, the handler
                        \* run, whether init threw, the instance's this.choices and
                        \* the element's ancestor form at that moment
    FilterToggleButton, \* window.FilterToggleButton is defined
    readyLog,           \* per FilterToggleButtonReady dispatch: was the global defined
    nChanges,           \* change events dispatched
    lastChange          \* the last change event: its target and the forms it submitted

vars == <<page, dom, GOVUK, pc, handlers, domReady, boot, bootRuns, redispatches, console,
          uncaught, widgets, submits, initLog, FilterToggleButton, readyLog, nChanges,
          lastChange>>

IdleBoot == [phase |-> "idle", todo |-> <<>>]

\* No script and no handler is running: the next event may be dispatched
Idle == pc \in {"start", "done"} /\ boot.phase = "idle"

\* Calls of a module's init on element e so far
Inits(log, module, e) ==
    Cardinality({i \in 1..Len(log) : log[i].module = module /\ log[i].elem = e})

Init ==
    /\ page \in [Elems -> PageElements]
    /\ dom = page
    /\ GOVUK \in InitialNamespaces
    /\ pc = "start"
    /\ handlers = 0
    /\ domReady = FALSE
    /\ boot = IdleBoot
    /\ bootRuns = 0
    /\ redispatches = 0
    /\ console = 0
    /\ uncaught = <<>>
    /\ widgets = <<>>
    /\ submits = [f \in Forms |-> 0]
    /\ initLog = <<>>
    /\ FilterToggleButton = FALSE
    /\ readyLog = <<>>
    /\ nChanges = 0
    /\ lastChange = [elem |-> 0, submitted |-> <<>>, inits |-> 0]

\* ------------------------------------------------- main.js: the evaluation
\* import "./components/select-with-search.js": lines 18-19 and 81
LoadSelectWithSearch ==
    /\ pc = "start" /\ boot.phase = "idle"
    /\ GOVUK' = Register(EnsureNamespace(GOVUK), "SelectWithSearch", "SelectWithSearch")
    /\ pc' = "import2"
    /\ UNCHANGED <<page, redispatches, dom, handlers, domReady, boot, bootRuns, console, uncaught,
                   widgets, submits, initLog, FilterToggleButton, readyLog,
                   nChanges, lastChange>>

\* import "./components/auto-submit.js": lines 21-22 and 50
LoadAutoSubmit ==
    /\ pc = "import2"
    /\ GOVUK' = Register(EnsureNamespace(GOVUK), "AutoSubmit", "AutoSubmit")
    /\ pc' = "initAll"
    /\ UNCHANGED <<page, redispatches, dom, handlers, domReady, boot, bootRuns, console, uncaught,
                   widgets, submits, initLog, FilterToggleButton, readyLog,
                   nChanges, lastChange>>

\* initAll(); initAllMOJ();  (the design system's own components)
InitAllFrontends ==
    /\ pc = "initAll"
    /\ pc' = "listen"
    /\ UNCHANGED <<page, redispatches, dom, GOVUK, handlers, domReady, boot, bootRuns, console,
                   uncaught, widgets, submits, initLog, FilterToggleButton,
                   readyLog, nChanges, lastChange>>

\* document.addEventListener("DOMContentLoaded", ...)
AttachReadyHandler ==
    /\ pc = "listen"
    /\ handlers' = handlers + 1
    /\ pc' = "export"
    /\ UNCHANGED <<page, redispatches, dom, GOVUK, domReady, boot, bootRuns, console, uncaught,
                   widgets, submits, initLog, FilterToggleButton, readyLog,
                   nChanges, lastChange>>

\* main.js with the export of line 82 placed after the dispatch of line 85:
\* at this point nothing is assigned yet
ExportAfterDispatch ==
    /\ pc = "export"
    /\ pc' = "dispatch"
    /\ UNCHANGED <<page, redispatches, dom, GOVUK, handlers, domReady, boot, bootRuns,
                   console, uncaught, widgets, submits, initLog, FilterToggleButton,
                   readyLog, nChanges, lastChange>>

\* window.FilterToggleButton = FilterToggleButton;
ExportFilterToggleButton ==
    /\ pc = "export"
    /\ FilterToggleButton' = TRUE
    /\ pc' = "dispatch"
    /\ UNCHANGED <<page, redispatches, dom, GOVUK, handlers, domReady, boot, bootRuns, console,
                   uncaught, widgets, submits, initLog, readyLog, nChanges,
                   lastChange>>

\* window.dispatchEvent(new Event("FilterToggleButtonReady")): a listener of
\* the event runs inside this call and sees the window as it is now.
DispatchFilterToggleButtonReady ==
    /\ pc = "dispatch"
    /\ readyLog' = Append(readyLog, FilterToggleButton)
    /\ pc' = "done"
    /\ UNCHANGED <<page, redispatches, dom, GOVUK, handlers, domReady, boot, bootRuns, console,
                   uncaught, widgets, submits, initLog, FilterToggleButton,
                   nChanges, lastChange>>

\* ---------------------------------------------- main.js: the bootstrap handler
\* The words of a data-module value
MarkerTokens(marker) ==
    IF marker = "auto-submit select-with-search"
    THEN {"auto-submit", "select-with-search"} ELSE {marker}

\* The query written with the word selector [data-module~="<key>"]
QuerySelectorAllWord(d, key) ==
    SelectSeq([i \in 1..Len(d) |-> i], LAMBDA i : key \in MarkerTokens(d[i].marker))

\* The query returning its matches last element first
QuerySelectorAllReversed(d, key) ==
    LET found == SelectSeq([i \in 1..Len(d) |-> i], LAMBDA i : d[i].marker = key)
    IN [i \in 1..Len(found) |-> found[Len(found) + 1 - i]]

\* document.querySelectorAll('[data-module="<key>"]'): the elements whose
\* data-module value is exactly key, in document order (a static list)
QuerySelectorAll(d, key) ==
    SelectSeq([i \in 1..Len(d) |-> i], LAMBDA i : d[i].marker = key)

\* A dispatch of DOMContentLoaded on the document: every attached handler
\* starts (lines 65-68: the first query)
RunReadyHandlers ==
    IF handlers > 0
    THEN /\ boot' = [phase |-> "sws", todo |-> QuerySelectorAll(dom, "select-with-search")]
         /\ bootRuns' = bootRuns + 1
    ELSE UNCHANGED <<boot, bootRuns>>

\* The browser fires DOMContentLoaded, once, when the document is parsed:
\* before or after main.js is evaluated, depending on how the page loads it
FireDOMContentLoaded ==
    /\ Idle /\ ~domReady
    /\ domReady' = TRUE
    /\ RunReadyHandlers
    /\ UNCHANGED <<page, redispatches, dom, GOVUK, pc, handlers, console, uncaught, widgets, submits,
                   initLog, FilterToggleButton, readyLog, nChanges, lastChange>>

\* The event is dispatched again on the same document (another script calls
\* document.dispatchEvent): the handler of lines 65-79 runs once more
RedispatchDOMContentLoaded ==
    /\ Idle /\ domReady /\ handlers > 0 /\ redispatches < MaxRedispatches
    /\ redispatches' = redispatches + 1
    /\ RunReadyHandlers
    /\ UNCHANGED <<page, dom, GOVUK, pc, handlers, domReady, console, uncaught, widgets,
                   submits, initLog, FilterToggleButton, readyLog, nChanges,
                   lastChange>>

\* An exception leaves the handler: the rest of it does not run
Abort(error) ==
    /\ uncaught' = Append(uncaught, error)
    /\ boot' = IdleBoot

\* lines 69-71, one iteration:
\* new window.GOVUK.Modules.SelectWithSearch(module).init()
InitNextSelectWithSearch ==
    /\ boot.phase = "sws" /\ boot.todo # <<>>
    /\ LET e == Head(boot.todo)
       IN IF Lookup(GOVUK, "SelectWithSearch") = Undefined
          THEN /\ Abort("TypeError")
               /\ UNCHANGED <<dom, console, widgets, initLog>>
          ELSE \E widgetOk \in BOOLEAN :
               LET r == SelectWithSearchInit(dom[e], Len(widgets) + 1, widgetOk)
               IN /\ dom' = [dom EXCEPT ![e] = r.el]
                  /\ console' = console + r.errors
                  /\ widgets' = widgets \o
                        [i \in 1..Len(r.widgets) |->
                            [elem |-> e, handle |-> Len(widgets) + 1, widget |-> r.widgets[i]]]
                  /\ initLog' = Append(initLog,
                        [module |-> "SelectWithSearch", elem |-> e, thrown |-> r.thrown,
                         run |-> bootRuns, choices |-> r.choices,
                         form |-> ClosestForm(dom[e])])
                  /\ IF r.thrown
                     THEN Abort("ChoicesError")
                     ELSE /\ boot' = [boot EXCEPT !.todo = Tail(@)]
                          /\ UNCHANGED uncaught
    /\ UNCHANGED <<page, redispatches, GOVUK, pc, handlers, domReady, bootRuns, submits,
                   FilterToggleButton, readyLog, nChanges, lastChange>>

\* lines 73-75: the second query, once the first forEach has returned
QueryAutoSubmit ==
    /\ boot.phase = "sws" /\ boot.todo = <<>>
    /\ boot' = [phase |-> "auto", todo |-> QuerySelectorAll(dom, "auto-submit")]
    /\ UNCHANGED <<page, redispatches, dom, GOVUK, pc, handlers, domReady, bootRuns, console, uncaught,
                   widgets, submits, initLog, FilterToggleButton, readyLog,
                   nChanges, lastChange>>

\* lines 76-78, one iteration: new window.GOVUK.Modules.AutoSubmit(module).init()
InitNextAutoSubmit ==
    /\ boot.phase = "auto" /\ boot.todo # <<>>
    /\ LET e == Head(boot.todo)
       IN IF Lookup(GOVUK, "AutoSubmit") = Undefined
          THEN /\ Abort("TypeError")
               /\ UNCHANGED <<dom, console, initLog>>
          ELSE LET r == AutoSubmitInit(dom[e])
               IN /\ dom' = [dom EXCEPT ![e] = r.el]
                  /\ console' = console + r.errors
                  /\ initLog' = Append(initLog,
                        [module |-> "AutoSubmit", elem |-> e, thrown |-> r.thrown,
                         run |-> bootRuns, choices |-> 0,
                         form |-> ClosestForm(dom[e])])
                  /\ boot' = [boot EXCEPT !.todo = Tail(@)]
                  /\ UNCHANGED uncaught
    /\ UNCHANGED <<page, redispatches, GOVUK, pc, handlers, domReady, bootRuns, widgets, submits,
                   FilterToggleButton, readyLog, nChanges, lastChange>>

\* line 79: the handler returns
FinishBootstrap ==
    /\ boot.phase = "auto" /\ boot.todo = <<>>
    /\ boot' = IdleBoot
    /\ UNCHANGED <<page, redispatches, dom, GOVUK, pc, handlers, domReady, bootRuns, console, uncaught,
                   widgets, submits, initLog, FilterToggleButton, readyLog,
                   nChanges, lastChange>>

\* ------------------------------------------------------------------ events
CountOf(seq, x) == Cardinality({i \in 1..Len(seq) : seq[i] = x})

\* A change event is dispatched on element e (auto-submit.js:45-47)
Change(e) ==
    /\ Idle /\ nChanges < MaxChanges
    /\ nChanges' = nChanges + 1
    /\ submits' = [f \in Forms |-> submits[f] + CountOf(ChangeSubmits(dom[e]), f)]
    /\ lastChange' = [elem |-> e, submitted |-> ChangeSubmits(dom[e]),
                      inits |-> Inits(initLog, "AutoSubmit", e)]
    /\ UNCHANGED <<page, redispatches, dom, GOVUK, pc, handlers, domReady, boot, bootRuns, console,
                   uncaught, widgets, initLog, FilterToggleButton, readyLog>>

\* Another script of the page removes an entry of window.GOVUK.Modules after
\* main.js has registered its modules: the namespace is a global any script
\* can write, and the bootstrap reads it only when the handler runs.  (What
\* other scripts wrote before main.js ran is InitialNamespaces.)
ForeignUnregister(k) ==
    /\ Idle /\ pc = "done"
    /\ Lookup(GOVUK, k) # Undefined
    /\ GOVUK' = Register(GOVUK, k, Undefined)
    /\ UNCHANGED <<page, redispatches, dom, pc, handlers, domReady, boot, bootRuns, console, uncaught,
                   widgets, submits, initLog, FilterToggleButton, readyLog,
                   nChanges, lastChange>>

Next ==
    \/ LoadSelectWithSearch
    \/ LoadAutoSubmit
    \/ InitAllFrontends
    \/ AttachReadyHandler
    \/ ExportFilterToggleButton
    \/ DispatchFilterToggleButtonReady
    \/ FireDOMContentLoaded
    \/ RedispatchDOMContentLoaded
    \/ InitNextSelectWithSearch
    \/ QueryAutoSubmit
    \/ InitNextAutoSubmit
    \/ FinishBootstrap
    \/ \E e \in Elems : Change(e)
    \/ \E k \in RegistryKeys : ForeignUnregister(k)

Spec == Init /\ [][Next]_vars

\* ------------------------------------------ one select-with-search element
\* Every element SelectWithSearch.init may be handed, up to MaxKids children
\* Values of the data-remove-duplicates attribute (Null: absent)
RemoveDupValues == {Null, "true", "false", "TRUE"}

UnitElements ==
    {El(tag, "select-with-search", Null, multiple, describedby, removeDup, kids) :
        tag \in {"select", "input"}, multiple \in BOOLEAN,
        describedby \in {Null, "hint"}, removeDup \in RemoveDupValues,
        kids \in SeqsUpTo(Nodes, MaxKids)}

\* A page holding one such element, main.js evaluated, at the moment the
\* bootstrap handler has made its first query
InitUnit ==
    /\ page \in [{1} -> UnitElements]
    /\ dom = page
    /\ GOVUK = Register(Register(EnsureNamespace(
                  [defined |-> FALSE, modulesDefined |-> FALSE, Modules |-> NoModules]),
                  "SelectWithSearch", "SelectWithSearch"), "AutoSubmit", "AutoSubmit")
    /\ pc = "done"
    /\ handlers = 1
    /\ domReady = TRUE
    /\ boot = [phase |-> "sws", todo |-> QuerySelectorAll(dom, "select-with-search")]
    /\ bootRuns = 1
    /\ redispatches = 0
    /\ console = 0
    /\ uncaught = <<>>
    /\ widgets = <<>>
    /\ submits = [f \in Forms |-> 0]
    /\ initLog = <<>>
    /\ FilterToggleButton = TRUE
    /\ readyLog = <<TRUE>>
    /\ nChanges = 0
    /\ lastChange = [elem |-> 0, submitted |-> <<>>, inits |-> 0]

\* Another script sets or removes the data-remove-duplicates attribute of
\* element e once the bootstrap is over: the attribute is read by line 47
\* only, inside init
SetRemoveDuplicates(e, v) ==
    /\ Idle /\ Inits(initLog, "SelectWithSearch", e) >= 1
    /\ dom[e].removeDup # v
    /\ dom[e].removeDup = page[e].removeDup
    /\ dom' = [dom EXCEPT ![e].removeDup = v]
    /\ UNCHANGED <<page, redispatches, GOVUK, pc, handlers, domReady, boot, bootRuns,
                   console, uncaught, widgets, submits, initLog, FilterToggleButton,
                   readyLog, nChanges, lastChange>>

NextUnit ==
    \/ InitNextSelectWithSearch
    \/ QueryAutoSubmit
    \/ FinishBootstrap
    \/ \E e \in DOMAIN dom, v \in RemoveDupValues : SetRemoveDuplicates(e, v)

SpecInit == InitUnit /\ [][NextUnit]_vars

\* ------------------------------------------------ moving auto-submit selects
\* The elements AutoSubmit.init may be handed: a select or not, inside one of
\* the page's forms or outside any
MoveElements ==
    {El(tag, "auto-submit", form, FALSE, Null, Null, <<Option("a", "A")>>) :
        tag \in {"select", "input"}, form \in Forms \cup {Null}}

\* A page of such elements, main.js evaluated, the document not yet parsed
InitMove ==
    /\ page \in [Elems -> MoveElements]
    /\ dom = page
    /\ GOVUK = Register(Register(EnsureNamespace(
                  [defined |-> FALSE, modulesDefined |-> FALSE, Modules |-> NoModules]),
                  "SelectWithSearch", "SelectWithSearch"), "AutoSubmit", "AutoSubmit")
    /\ pc = "done"
    /\ handlers = 1
    /\ domReady = FALSE
    /\ boot = IdleBoot
    /\ bootRuns = 0
    /\ redispatches = 0
    /\ console = 0
    /\ uncaught = <<>>
    /\ widgets = <<>>
    /\ submits = [f \in Forms |-> 0]
    /\ initLog = <<>>
    /\ FilterToggleButton = TRUE
    /\ readyLog = <<TRUE>>
    /\ nChanges = 0
    /\ lastChange = [elem |-> 0, submitted |-> <<>>, inits |-> 0]

\* Another script moves element e into form f, or out of every form or out
\* of the document (f = Null), between two events: the closure of lines
\* 45-47 keeps the form that line 37 found
MoveSelect(e, f) ==
    /\ Idle
    /\ dom[e].form # f
    /\ dom' = [dom EXCEPT ![e].form = f]
    /\ UNCHANGED <<page, redispatches, GOVUK, pc, handlers, domReady, boot, bootRuns,
                   console, uncaught, widgets, submits, initLog, FilterToggleButton,
                   readyLog, nChanges, lastChange>>

NextMove ==
    \/ FireDOMContentLoaded
    \/ QueryAutoSubmit
    \/ InitNextAutoSubmit
    \/ FinishBootstrap
    \/ \E e \in DOMAIN dom : Change(e)
    \/ \E e \in DOMAIN dom, f \in Forms \cup {Null} : MoveSelect(e, f)

SpecMove == InitMove /\ [][NextMove]_vars

\* ================================================================== claims
\* The step just taken was a change event dispatched on element e
ChangedOn(e) == nChanges' = nChanges + 1 /\ lastChange'.elem = e

\* The step just taken was a call of module's init on element e
InitCalledOn(module, e) ==
    /\ Len(initLog') = Len(initLog) + 1
    /\ initLog'[Len(initLog')].module = module
    /\ initLog'[Len(initLog')].elem = e

\* C1: once AutoSubmit.init has run once on a select that has an ancestor
\* form, every later change event on that select calls submit() exactly once
\* on that form, inside the handling of the event (nothing is deferred or
\* suppressed), and the listener is never removed.
C1_ChangeSubmitsOnce ==
    [][\A e \in DOMAIN dom :
        /\ (/\ ChangedOn(e)
            /\ Inits(initLog, "AutoSubmit", e) = 1
            /\ MatchesSelect(page[e]) /\ ClosestForm(page[e]) # Null)
           => /\ lastChange'.submitted = <<ClosestForm(page[e])>>
              /\ submits' = [submits EXCEPT ![ClosestForm(page[e])] = @ + 1]
        /\ Len(dom'[e].listeners) >= Len(dom[e].listeners)]_vars

\* Two change events in a row on an initialised auto-submit select, each
\* submitting its form once
C1_Witness ==
    \E e \in DOMAIN dom :
        /\ nChanges = 2 /\ lastChange.elem = e /\ lastChange.inits = 1
        /\ MatchesSelect(page[e]) /\ ClosestForm(page[e]) = "f"
        /\ lastChange.submitted = <<"f">> /\ submits["f"] = 2

\* An element fails a precondition of AutoSubmit.init
FailsAutoSubmitPrecondition(el) == ~MatchesSelect(el) \/ ClosestForm(el) = Null

\* C2: AutoSubmit.init on an element that is not a select, or is a select
\* with no ancestor form, attaches no listener, reports exactly one error
\* (also when both preconditions fail) and returns without throwing; a later
\* change event on that element submits no form.
C2_PreconditionFailure ==
    [][\A e \in DOMAIN dom :
        FailsAutoSubmitPrecondition(page[e]) =>
            /\ InitCalledOn("AutoSubmit", e) =>
                  /\ dom'[e] = dom[e]
                  /\ console' = console + 1
                  /\ uncaught' = uncaught
                  /\ ~initLog'[Len(initLog')].thrown
            /\ ChangedOn(e) => (submits' = submits /\ lastChange'.submitted = <<>>)]_vars

\* AutoSubmit.init has run on an element that is neither a select nor inside
\* a form, one error was reported, and a change event on it followed
C2_Witness ==
    \E e \in DOMAIN dom :
        /\ ~MatchesSelect(page[e]) /\ ClosestForm(page[e]) = Null
        /\ Inits(initLog, "AutoSubmit", e) = 1
        /\ console = 1 /\ uncaught = <<>>
        /\ lastChange.elem = e /\ lastChange.inits = 1
        /\ lastChange.submitted = <<>>

\* C3: SelectWithSearch.init on an element that is not a select reports one
\* error and does nothing else: the element (its option texts, its
\* attributes, the widget handle on it) is unchanged, no widget is
\* constructed and nothing is thrown.
C3_NonSelectUntouched ==
    [][\A e \in DOMAIN dom :
        (InitCalledOn("SelectWithSearch", e) /\ ~MatchesSelect(dom[e])) =>
            /\ dom'[e] = dom[e]
            /\ widgets' = widgets
            /\ console' = console + 1
            /\ uncaught' = uncaught
            /\ ~initLog'[Len(initLog')].thrown]_vars

\* init has run on a non-select whose first child is an empty option with an
\* empty value attribute: a select like it would have been rewritten
C3_Witness ==
    /\ ~MatchesSelect(page[1])
    /\ Inits(initLog, "SelectWithSearch", 1) = 1
    /\ PlaceholderOption(page[1].kids) = <<1>>
    /\ page[1].kids[1].text = ""
    /\ dom = page /\ console = 1 /\ widgets = <<>>

\* The options under a select, as paths into its children
OptionPaths(kids) ==
    {<<i>> : i \in {k \in 1..Len(kids) : kids[k].kind = "option"}}
    \cup UNION {{<<i, j>> : j \in 1..Len(kids[i].kids)} :
                   i \in {k \in 1..Len(kids) : kids[k].kind = "optgroup"}}

\* select.options[0]: the first option of the select in document order
\* (<<>>: the select has no option)
FirstOption(kids) ==
    LET ps == OptionPaths(kids)
    IN IF ps = {} THEN <<>>
       ELSE CHOOSE p \in ps :
               \A q \in ps : p[1] < q[1] \/ (p[1] = q[1] /\ (Len(p) = 1 \/ p[2] <= q[2]))

\* The options of element e whose text differs from the rendered page's
Rewritten(e) ==
    {p \in OptionPaths(page[e].kids) :
        NodeAt(dom[e].kids, p).text # NodeAt(page[e].kids, p).text}

\* C4: for every select handed to SelectWithSearch.init, the placeholder text
\* ("Select all that apply" for a multiple select, "Select one" otherwise) is
\* written if and only if the select's first option has an empty value and
\* an empty text; only that first option is ever rewritten (not the first
\* child of a nested optgroup), an option whose value is empty because it has
\* no value attribute counts, and no non-empty text is overwritten.
C4_RewriteIffFirstOptionEmpty ==
    \A e \in DOMAIN dom :
        (Inits(initLog, "SelectWithSearch", e) = 1 /\ MatchesSelect(page[e])) =>
            LET first == FirstOption(page[e].kids)
                emptyFirst ==
                    /\ first # <<>>
                    /\ OptionValueProperty(NodeAt(page[e].kids, first)) = ""
                    /\ NodeAt(page[e].kids, first).text = ""
            IN /\ (Rewritten(e) # {}) <=> emptyFirst
               /\ Rewritten(e) \subseteq {first}
               /\ \A p \in Rewritten(e) :
                     /\ NodeAt(page[e].kids, p).text = ""
                     /\ NodeAt(dom[e].kids, p).text = PlaceholderText(page[e])

\* The bootstrap handler is not running
BootstrapOver == boot.phase = "idle"

\* C5: during the bootstrap, an exception raised by one element's init (the
\* widget constructor throwing) does not prevent the initialisation of any
\* later element: every select-with-search element and every auto-submit
\* element is still initialised.
C5_FailureIsolated ==
    (BootstrapOver /\ bootRuns = 1 /\ uncaught = <<"ChoicesError">>) =>
        \A e \in DOMAIN dom :
            /\ page[e].marker = "select-with-search" =>
                  Inits(initLog, "SelectWithSearch", e) >= 1
            /\ page[e].marker = "auto-submit" =>
                  Inits(initLog, "AutoSubmit", e) >= 1

\* C6: the bootstrap handler runs exactly once per page load whichever comes
\* first, the evaluation of main.js or the browser's DOMContentLoaded: once
\* both have happened the handler has run (also when the event fired before
\* the handler was attached).
C6_HandlerRunsOnce ==
    (pc = "done" /\ domReady /\ redispatches = 0) => bootRuns = 1

\* The registry key the running bootstrap loop reads
LoopKey == IF boot.phase = "sws" THEN "SelectWithSearch" ELSE "AutoSubmit"

\* C7: when the bootstrap reaches a matched element whose capability has no
\* factory in the registry at that moment, the element is skipped silently:
\* nothing is raised, no init is called, and the loop goes on with the
\* remaining elements.
C7_MissingFactorySkipped ==
    [][(/\ boot.phase \in {"sws", "auto"} /\ boot.todo # <<>>
        /\ Lookup(GOVUK, LoopKey) = Undefined)
       => /\ uncaught' = uncaught
          /\ initLog' = initLog
          /\ boot' = [boot EXCEPT !.todo = Tail(@)]]_vars

\* C8 (its auto-submit half): after the bootstrap has scanned the same
\* document twice, a change event on an auto-submit select inside a form
\* still submits that form exactly once.
C8_RescanIdempotent ==
    [][\A e \in DOMAIN dom :
        (/\ ChangedOn(e)
         /\ bootRuns = 2 /\ uncaught = <<>>
         /\ page[e].marker = "auto-submit"
         /\ MatchesSelect(page[e]) /\ ClosestForm(page[e]) # Null)
        => Len(lastChange'.submitted) = 1]_vars

\* The widgets constructed on element e, and the change listeners on it
WidgetsOf(e) == Cardinality({i \in 1..Len(widgets) : widgets[i].elem = e})
ListenersOf(e) == Len(dom[e].listeners)

\* One bootstrap run has finished and nothing was raised in it
OneCleanBootstrap == BootstrapOver /\ bootRuns = 1 /\ uncaught = <<>>

\* C9 as stated: after one bootstrap run in which nothing is raised, every
\* element whose data-module is exactly "select-with-search" or exactly
\* "auto-submit" and whose tag is select has exactly one behaviour instance
\* (a widget, a change listener), no element has more than one, and an
\* element with any other marker has none.
C9_OneInstancePerSelect ==
    OneCleanBootstrap =>
        \A e \in DOMAIN dom :
            /\ (page[e].marker = "select-with-search" /\ MatchesSelect(page[e]))
                  => (WidgetsOf(e) = 1 /\ dom[e].choices # 0)
            /\ (page[e].marker = "auto-submit" /\ MatchesSelect(page[e]))
                  => ListenersOf(e) = 1
            /\ WidgetsOf(e) <= 1 /\ ListenersOf(e) <= 1
            /\ page[e].marker \notin {"select-with-search", "auto-submit"}
                  => (WidgetsOf(e) = 0 /\ ListenersOf(e) = 0)

\* C9 amended: an auto-submit select gets its one instance when it also has
\* an ancestor form (the module's second precondition).
C9_OneInstancePerEligible ==
    OneCleanBootstrap =>
        \A e \in DOMAIN dom :
            /\ (page[e].marker = "select-with-search" /\ MatchesSelect(page[e]))
                  => (WidgetsOf(e) = 1 /\ dom[e].choices # 0)
            /\ (/\ page[e].marker = "auto-submit" /\ MatchesSelect(page[e])
                /\ ClosestForm(page[e]) # Null)
                  => ListenersOf(e) = 1
            /\ WidgetsOf(e) <= 1 /\ ListenersOf(e) <= 1
            /\ page[e].marker \notin {"select-with-search", "auto-submit"}
                  => (WidgetsOf(e) = 0 /\ ListenersOf(e) = 0)

\* A finished bootstrap of a page holding an auto-submit select in a form
\* (one listener) and an element whose marker only contains a capability key
C9_Witness ==
    /\ OneCleanBootstrap
    /\ \E e \in DOMAIN dom :
          /\ page[e].marker = "auto-submit" /\ MatchesSelect(page[e])
          /\ ClosestForm(page[e]) # Null /\ ListenersOf(e) = 1
    /\ \E e \in DOMAIN dom :
          /\ page[e].marker = "auto-submit select-with-search"
          /\ WidgetsOf(e) = 0 /\ ListenersOf(e) = 0

\* C10: the FilterToggleButtonReady event is dispatched exactly once per page
\* load, and only once window.FilterToggleButton is defined: whenever a
\* listener sees the event, the global is already there.
C10_ReadyAfterExport ==
    /\ Len(readyLog) <= 1
    /\ pc = "done" => Len(readyLog) = 1
    /\ \A i \in 1..Len(readyLog) : readyLog[i] /\ FilterToggleButton

\* main.js has been evaluated to its end and the event was seen once
C10_Witness == pc = "done" /\ readyLog = <<TRUE>> /\ FilterToggleButton

\* C11: when the widget's construction fails during SelectWithSearch.init,
\* the failure leaves init (nothing is retried, no widget exists) and the
\* select is left in its base state: no option text, attribute or property
\* of it differs from before init; the placeholder text is unchanged and no
\* widget handle is stored.
C11_FailureLeavesBaseState ==
    [][\A e \in DOMAIN dom :
        (InitCalledOn("SelectWithSearch", e) /\ initLog'[Len(initLog')].thrown) =>
            /\ uncaught' = Append(uncaught, "ChoicesError")
            /\ widgets' = widgets
            /\ dom'[e] = dom[e]]_vars

\* The one init call made on element e by module
InitEntry(module, e) ==
    initLog[CHOOSE i \in 1..Len(initLog) :
                initLog[i].module = module /\ initLog[i].elem = e]

\* C12: after SelectWithSearch.init on an element, the widget handle is on
\* the element (element.choices) if and only if the element is a select and
\* the widget's construction succeeded, and it is then the very handle the
\* instance holds (this.choices), the handle of a constructed widget.
C12_HandleExposed ==
    \A e \in DOMAIN dom :
        /\ Inits(initLog, "SelectWithSearch", e) = 0 => dom[e].choices = 0
        /\ Inits(initLog, "SelectWithSearch", e) = 1 =>
              LET entry == InitEntry("SelectWithSearch", e)
              IN /\ dom[e].choices # 0 <=> (MatchesSelect(page[e]) /\ ~entry.thrown)
                 /\ dom[e].choices = entry.choices
                 /\ dom[e].choices # 0 =>
                       \E i \in 1..Len(widgets) :
                           widgets[i].elem = e /\ widgets[i].handle = dom[e].choices

\* init has returned on a select and its widget's handle is on the element
C12_Witness ==
    /\ BootstrapOver /\ uncaught = <<>>
    /\ MatchesSelect(page[1]) /\ Inits(initLog, "SelectWithSearch", 1) = 1
    /\ dom[1].choices = 1 /\ Len(widgets) = 1

\* C13: a widget is configured to refuse duplicate items
\* (duplicateItemsAllowed false) if and only if the select's
\* data-remove-duplicates attribute was exactly "true" when init ran; the
\* attribute is read then and never again, so a later change of it leaves
\* the widget's configuration as it was.
C13_RemoveDuplicatesExact ==
    /\ [](\A i \in 1..Len(widgets) :
            widgets[i].widget.config.duplicateItemsAllowed
                = (page[widgets[i].elem].removeDup # "true"))
    /\ [][(\E e \in DOMAIN dom : dom'[e].removeDup # dom[e].removeDup) =>
              widgets' = widgets]_vars

\* a widget built from a select carrying data-remove-duplicates="true"
\* refuses duplicates, and still does after the attribute was changed
C13_Witness ==
    /\ Len(widgets) = 1 /\ page[1].removeDup = "true"
    /\ ~widgets[1].widget.config.duplicateItemsAllowed
    /\ dom[1].removeDup = "false"

\* The widget constructed for element e (one init call was made on it)
WidgetOf(e) == widgets[CHOOSE i \in 1..Len(widgets) : widgets[i].elem = e].widget

\* The scenario of C14: init has succeeded on a multiple select without
\* aria-describedby whose first option has value "" and text ""
MultiPlaceholderScenario(e) ==
    /\ MatchesSelect(page[e]) /\ page[e].multiple /\ page[e].describedby = Null
    /\ Len(page[e].kids) >= 1 /\ page[e].kids[1] = Option("", "")
    /\ Inits(initLog, "SelectWithSearch", e) = 1
    /\ ~InitEntry("SelectWithSearch", e).thrown

\* C14 as stated: in the scenario the placeholder reads "Select all that
\* apply", the widget is in multi-selection mode, and the chip container (the
\* list of selected items) precedes the search input.
C14_ChipsPrecedeInput ==
    \A e \in DOMAIN dom :
        MultiPlaceholderScenario(e) =>
            /\ dom[e].kids[1].text = "Select all that apply"
            /\ WidgetOf(e).type = "select-multiple"
            /\ WidgetOf(e).config.removeItemButton
            /\ WidgetOf(e).layout.inner = <<"itemList", "input">>

\* C14 amended: in the scenario the placeholder reads "Select all that
\* apply", the widget is in multi-selection mode, and the search input
\* precedes the chip container: it is the first child of the inner container.
C14_InputPrecedesChips ==
    \A e \in DOMAIN dom :
        MultiPlaceholderScenario(e) =>
            /\ dom[e].kids[1].text = "Select all that apply"
            /\ WidgetOf(e).type = "select-multiple"
            /\ WidgetOf(e).config.removeItemButton
            /\ WidgetOf(e).layout.inner = <<"input", "itemList">>

\* the scenario has happened: the bootstrap is over, the widget exists
C14_Witness ==
    /\ BootstrapOver /\ MultiPlaceholderScenario(1)
    /\ Len(page[1].kids) = 2 /\ Len(widgets) = 1 /\ dom[1].choices = 1

\* C15: when callbackOnInit has run, the search input has been moved to be
\* the first child of the widget's inner container if and only if the widget
\* is a multiple select; for a single select the input is where the widget
\* built it and the structure is unchanged.
C15_InputMovedIffMultiple ==
    \A i \in 1..Len(widgets) :
        LET w == widgets[i].widget
            multi == page[widgets[i].elem].multiple
        IN /\ (w.layout # w.built) <=> multi
           /\ (w.layout.inner[1] = "input") <=> multi
           /\ multi => w.layout = [inner |-> <<"input", "itemList">>,
                                   dropdown |-> w.built.dropdown]
           /\ ~multi => w.layout = w.built

\* a single select's widget has been constructed and its callback has run:
\* the input is still at the head of the dropdown
C15_WitnessSingle ==
    /\ BootstrapOver /\ Len(widgets) = 1
    /\ ~page[1].multiple
    /\ widgets[1].widget.type = "select-one"
    /\ widgets[1].widget.layout.dropdown[1] = "input"

\* a multiple select's widget has been constructed and its callback has run:
\* the input has left its place after the list of selected items
C15_Witness ==
    /\ BootstrapOver /\ Len(widgets) = 1
    /\ page[1].multiple
    /\ widgets[1].widget.built.inner = <<"itemList", "input">>
    /\ widgets[1].widget.layout.inner[1] = "input"

\* C17: the label reference handed to the widget is the select's id, then
\* "-label ", then the select's aria-describedby value, or nothing when the
\* select has none (the reference then ends in a space); the listbox's
\* aria-labelledby is set to the identical string, for single and multiple
\* selects alike.
C17_LabelReference ==
    \A i \in 1..Len(widgets) :
        LET w == widgets[i].widget
            el == page[widgets[i].elem]
        IN /\ w.config.labelId =
                 (IF el.describedby = Null THEN "sel-label " ELSE "sel-label hint")
           /\ w.listboxLabelledBy = w.config.labelId

\* a widget has been constructed for a single select without aria-describedby
C17_Witness ==
    /\ BootstrapOver /\ Len(widgets) = 1
    /\ page[1].describedby = Null /\ ~page[1].multiple
    /\ widgets[1].widget.listboxLabelledBy = "sel-label "

\* C16: within one run of the bootstrap handler, the elements of a group are
\* initialised in document order, and every init of a select-with-search
\* element is over before the first init of an auto-submit element begins.
C16_BootstrapOrder ==
    \A i, j \in 1..Len(initLog) :
        (i < j /\ initLog[i].run = initLog[j].run) =>
            /\ ~(initLog[i].module = "AutoSubmit"
                    /\ initLog[j].module = "SelectWithSearch")
            /\ initLog[i].module = initLog[j].module =>
                  initLog[i].elem < initLog[j].elem

\* a page whose auto-submit select comes before its select-with-search
\* select: the later element was initialised first
C16_Witness ==
    /\ BootstrapOver /\ bootRuns = 1 /\ Len(initLog) = 2
    /\ page[1].marker = "auto-submit" /\ page[2].marker = "select-with-search"
    /\ initLog[1].module = "SelectWithSearch" /\ initLog[1].elem = 2
    /\ initLog[2].module = "AutoSubmit" /\ initLog[2].elem = 1

\* The state of the page apart from the registry
ButRegistry ==
    <<page, dom, pc, handlers, domReady, boot, bootRuns, redispatches, console,
      uncaught, widgets, submits, initLog, FilterToggleButton, readyLog,
      nChanges, lastChange>>

\* The step just taken was the load of the module script registering key
LoadedModule(key) ==
    \/ key = "SelectWithSearch" /\ pc = "start" /\ pc' = "import2"
    \/ key = "AutoSubmit" /\ pc = "import2" /\ pc' = "initAll"

\* C18: the program changes the registry only when a module script loads.
\* The load leaves the namespace existing (creating it if it was absent),
\* puts the module's factory under the module's own key, overwriting what was
\* there, and keeps every other key as it was; no other step of the program
\* (the rest of main.js, the bootstrap handler, an init, a change event)
\* changes the registry.
C18_RegistryFrame ==
    [][/\ \A key \in {"SelectWithSearch", "AutoSubmit"} :
             LoadedModule(key) =>
                 /\ GOVUK'.defined /\ GOVUK'.modulesDefined
                 /\ Lookup(GOVUK', key) = key
                 /\ \A k \in RegistryKeys \ {key} :
                        Lookup(GOVUK', k) =
                            IF GOVUK.defined /\ GOVUK.modulesDefined
                            THEN Lookup(GOVUK, k) ELSE Undefined
       /\ (ButRegistry' # ButRegistry
             /\ ~LoadedModule("SelectWithSearch") /\ ~LoadedModule("AutoSubmit"))
          => GOVUK' = GOVUK]_vars

\* both module scripts have loaded over a registry that held another
\* script's entries, the bootstrap has run and a change event was dispatched:
\* the foreign entry is still there and SelectWithSearch's was overwritten
C18_Witness ==
    /\ pc = "done" /\ BootstrapOver /\ bootRuns = 1 /\ nChanges >= 1
    /\ Len(initLog) = 2
    /\ Lookup(GOVUK, "Other") = "Foreign"
    /\ Lookup(GOVUK, "SelectWithSearch") = "SelectWithSearch"
    /\ Lookup(GOVUK, "AutoSubmit") = "AutoSubmit"

\* C19: the form a change event submits is the one that was the select's
\* nearest ancestor form when init ran: every later change event on the
\* select submits that form, once, and no other, wherever the select is by
\* then (in another form, in none, or out of the document).
C19_FormFixedAtInit ==
    [][\A e \in DOMAIN dom :
        (ChangedOn(e) /\ Inits(initLog, "AutoSubmit", e) = 1
            /\ MatchesSelect(dom[e])
            /\ InitEntry("AutoSubmit", e).form # Null) =>
                LET form == InitEntry("AutoSubmit", e).form
                IN /\ lastChange'.submitted = <<form>>
                   /\ submits' = [submits EXCEPT ![form] = @ + 1]]_vars

\* the select was inside form f when init ran, was moved out of it
\* afterwards, and a change event on it has submitted f
C19_Witness ==
    /\ nChanges = 1 /\ lastChange.elem = 1
    /\ Inits(initLog, "AutoSubmit", 1) = 1
    /\ InitEntry("AutoSubmit", 1).form = "f"
    /\ dom[1].form = "g"
    /\ lastChange.submitted = <<"f">>
    /\ submits = [f \in Forms |-> IF f = "f" THEN 1 ELSE 0]

====
